---- MODULE Spec2Model ----
(***************************************************************************)
(* A model of the Pardalotus Snapshot Tool (src/src/main.rs): the          *)
(* directory scan, the suffix dispatcher, the three decoders, the producer *)
(* thread, the bounded channel and the two consumers of main_r (the        *)
(* record counter and the re-serializing writer).                          *)
(*                                                                         *)
(* Text is modelled as sequences of one-character strings, JSON values as  *)
(* tagged records.  serde_json's grammar is modelled for null, booleans,   *)
(* non-negative integers, strings (with the escapes \" \\ \n \r), arrays   *)
(* and objects; floats and negative numbers are outside the model.         *)
(***************************************************************************)
EXTENDS Integers, Sequences, FiniteSets, TLC

\* ------------------------------------------------------------------ text

LF == "\n"
CR == "\r"
DQ == "\""
BS == "\\"
SP == " "

DigitChars == <<"0", "1", "2", "3", "4", "5", "6", "7", "8", "9">>

IsDigit(c) == \E i \in 1..10 : DigitChars[i] = c

DigitVal(c) == (CHOOSE i \in 1..10 : DigitChars[i] = c) - 1

\* Byte values of the characters the model uses (the order of object keys).
Code(c) ==
    CASE c = LF -> 10 [] c = CR -> 13 [] c = SP -> 32 [] c = DQ -> 34
      [] c = "," -> 44 [] c = "." -> 46 [] c = "/" -> 47
      [] IsDigit(c) -> 48 + DigitVal(c)
      [] c = ":" -> 58
      [] c = "D" -> 68 [] c = "I" -> 73 [] c = "O" -> 79
      [] c = "[" -> 91 [] c = BS -> 92 [] c = "]" -> 93
      [] c = "a" -> 97 [] c = "b" -> 98 [] c = "d" -> 100 [] c = "e" -> 101
      [] c = "f" -> 102 [] c = "g" -> 103 [] c = "i" -> 105 [] c = "j" -> 106
      [] c = "l" -> 108 [] c = "m" -> 109 [] c = "n" -> 110 [] c = "o" -> 111
      [] c = "r" -> 114 [] c = "s" -> 115 [] c = "t" -> 116 [] c = "u" -> 117
      [] c = "x" -> 120 [] c = "y" -> 121 [] c = "z" -> 122
      [] c = "{" -> 123 [] c = "}" -> 125
      [] OTHER -> 63

\* str::ends_with
EndsWith(s, suffix) ==
    /\ Len(suffix) <= Len(s)
    /\ SubSeq(s, Len(s) - Len(suffix) + 1, Len(s)) = suffix

\* Path::starts_with and the prefix order on sequences.
IsPrefix(p, s) == Len(p) <= Len(s) /\ SubSeq(s, 1, Len(p)) = p

RECURSIVE Flatten(_)
Flatten(ss) == IF ss = <<>> THEN <<>> ELSE Head(ss) \o Flatten(Tail(ss))

\* Lexicographic byte order on strings (the key order of serde_json's Map).
RECURSIVE StrLess(_, _)
StrLess(a, b) ==
    IF b = <<>> THEN FALSE
    ELSE IF a = <<>> THEN TRUE
    ELSE IF Code(Head(a)) /= Code(Head(b)) THEN Code(Head(a)) < Code(Head(b))
    ELSE StrLess(Tail(a), Tail(b))

\* ----------------------------------------------------------- JSON values

Null == [t |-> "null"]
Bool(b) == [t |-> "bool", b |-> b]
Num(n) == [t |-> "num", n |-> n]
Str(s) == [t |-> "str", s |-> s]
Arr(a) == [t |-> "arr", a |-> a]
\* An object holds its members as <<key, value>> pairs in ascending key
\* order, each key once (serde_json::Map is a BTreeMap).
Obj(o) == [t |-> "obj", o |-> o]

\* Map::insert: a later member with the same key replaces the earlier one.
RECURSIVE MapInsert(_, _, _)
MapInsert(o, k, v) ==
    IF o = <<>> THEN << <<k, v>> >>
    ELSE IF Head(o)[1] = k THEN << <<k, v>> >> \o Tail(o)
    ELSE IF StrLess(k, Head(o)[1]) THEN << <<k, v>> >> \o o
    ELSE <<Head(o)>> \o MapInsert(Tail(o), k, v)

\* Value::get(key): None (here NoValue) for a non-object or a missing key.
NoValue == [t |-> "none"]

MapGet(o, k) ==
    IF \E i \in 1..Len(o) : o[i][1] = k
    THEN o[CHOOSE i \in 1..Len(o) : o[i][1] = k][2]
    ELSE NoValue

ValueGet(v, k) == IF v.t = "obj" THEN MapGet(v.o, k) ELSE NoValue

\* ------------------------------------------------- serde_json::to_writer

RECURSIVE Digits(_)
Digits(n) ==
    IF n < 10 THEN <<DigitChars[n + 1]>>
    ELSE Digits(n \div 10) \o <<DigitChars[(n % 10) + 1]>>

EscapeChar(c) ==
    CASE c = DQ -> <<BS, DQ>>
      [] c = BS -> <<BS, BS>>
      [] c = LF -> <<BS, "n">>
      [] c = CR -> <<BS, "r">>
      [] OTHER -> <<c>>

SerStr(s) == <<DQ>> \o Flatten([i \in 1..Len(s) |-> EscapeChar(s[i])]) \o <<DQ>>

RECURSIVE JoinComma(_)
JoinComma(ss) ==
    IF ss = <<>> THEN <<>>
    ELSE IF Len(ss) = 1 THEN ss[1]
    ELSE ss[1] \o <<",">> \o JoinComma(Tail(ss))

\* Compact JSON text of a value, as serde_json::to_writer writes it.
RECURSIVE Serialize(_)
Serialize(v) ==
    CASE v.t = "null" -> <<"n", "u", "l", "l">>
      [] v.t = "bool" -> IF v.b THEN <<"t", "r", "u", "e">>
                                ELSE <<"f", "a", "l", "s", "e">>
      [] v.t = "num" -> Digits(v.n)
      [] v.t = "str" -> SerStr(v.s)
      [] v.t = "arr" ->
            <<"[">> \o JoinComma([i \in 1..Len(v.a) |-> Serialize(v.a[i])]) \o <<"]">>
      [] v.t = "obj" ->
            <<"{">>
            \o JoinComma([i \in 1..Len(v.o) |->
                            SerStr(v.o[i][1]) \o <<":">> \o Serialize(v.o[i][2])])
            \o <<"}">>

\* -------------------------------------------------- serde_json::from_str

IsWs(c) == c = SP \/ c = LF \/ c = CR \/ c = "\t"

RECURSIVE SkipWs(_, _)
SkipWs(t, i) == IF i <= Len(t) /\ IsWs(t[i]) THEN SkipWs(t, i + 1) ELSE i

Fail == [ok |-> FALSE]
Done(v, i) == [ok |-> TRUE, v |-> v, pos |-> i]

\* The literal lit at position i of t.
Lit(t, i, lit, v) ==
    IF i + Len(lit) - 1 <= Len(t) /\ SubSeq(t, i, i + Len(lit) - 1) = lit
    THEN Done(v, i + Len(lit))
    ELSE Fail

\* The digits after the first one of a number.
RECURSIVE NumRest(_, _, _)
NumRest(t, i, acc) ==
    IF i <= Len(t) /\ IsDigit(t[i])
    THEN NumRest(t, i + 1, acc * 10 + DigitVal(t[i]))
    ELSE Done(Num(acc), i)

\* A number at position i: 0, or a non-zero digit and more digits; a digit
\* after a leading 0 is an error.
ParseNum(t, i) ==
    IF t[i] = "0"
    THEN IF i + 1 <= Len(t) /\ IsDigit(t[i + 1]) THEN Fail ELSE Done(Num(0), i + 1)
    ELSE NumRest(t, i + 1, DigitVal(t[i]))

\* The characters of a string after its opening quote; a raw control
\* character inside a string is an error.
RECURSIVE StrRest(_, _, _)
StrRest(t, i, acc) ==
    IF i > Len(t) THEN Fail
    ELSE IF t[i] = DQ THEN Done(acc, i + 1)
    ELSE IF t[i] = LF \/ t[i] = CR \/ t[i] = "\t" THEN Fail
    ELSE IF t[i] = BS
    THEN IF i + 1 > Len(t) THEN Fail
         ELSE CASE t[i + 1] = DQ -> StrRest(t, i + 2, Append(acc, DQ))
                [] t[i + 1] = BS -> StrRest(t, i + 2, Append(acc, BS))
                [] t[i + 1] = "/" -> StrRest(t, i + 2, Append(acc, "/"))
                [] t[i + 1] = "n" -> StrRest(t, i + 2, Append(acc, LF))
                [] t[i + 1] = "r" -> StrRest(t, i + 2, Append(acc, CR))
                [] t[i + 1] = "t" -> StrRest(t, i + 2, Append(acc, "\t"))
                [] OTHER -> Fail
    ELSE StrRest(t, i + 1, Append(acc, t[i]))

RECURSIVE ParseValue(_, _)
RECURSIVE ArrRest(_, _, _)
RECURSIVE ObjRest(_, _, _)

\* The elements of an array from position i on, acc the elements so far.
ArrRest(t, i, acc) ==
    LET e == ParseValue(t, i) IN
    IF ~e.ok THEN Fail
    ELSE LET j == SkipWs(t, e.pos) IN
         IF j > Len(t) THEN Fail
         ELSE IF t[j] = "," THEN ArrRest(t, j + 1, Append(acc, e.v))
         ELSE IF t[j] = "]" THEN Done(Arr(Append(acc, e.v)), j + 1)
         ELSE Fail

\* The members of an object from position i on, acc the members so far.
ObjRest(t, i, acc) ==
    LET k == SkipWs(t, i) IN
    IF k > Len(t) \/ t[k] /= DQ THEN Fail
    ELSE LET key == StrRest(t, k + 1, <<>>) IN
         IF ~key.ok THEN Fail
         ELSE LET c == SkipWs(t, key.pos) IN
              IF c > Len(t) \/ t[c] /= ":" THEN Fail
              ELSE LET e == ParseValue(t, c + 1) IN
                   IF ~e.ok THEN Fail
                   ELSE LET j == SkipWs(t, e.pos)
                            o == MapInsert(acc, key.v, e.v) IN
                        IF j > Len(t) THEN Fail
                        ELSE IF t[j] = "," THEN ObjRest(t, j + 1, o)
                        ELSE IF t[j] = "}" THEN Done(Obj(o), j + 1)
                        ELSE Fail

\* One JSON value starting at or after position i.
ParseValue(t, i) ==
    LET j == SkipWs(t, i) IN
    IF j > Len(t) THEN Fail
    ELSE CASE t[j] = "n" -> Lit(t, j, <<"n", "u", "l", "l">>, Null)
           [] t[j] = "t" -> Lit(t, j, <<"t", "r", "u", "e">>, Bool(TRUE))
           [] t[j] = "f" -> Lit(t, j, <<"f", "a", "l", "s", "e">>, Bool(FALSE))
           [] IsDigit(t[j]) -> ParseNum(t, j)
           [] t[j] = DQ ->
                LET s == StrRest(t, j + 1, <<>>) IN
                IF s.ok THEN Done(Str(s.v), s.pos) ELSE Fail
           [] t[j] = "[" ->
                LET k == SkipWs(t, j + 1) IN
                IF k <= Len(t) /\ t[k] = "]" THEN Done(Arr(<<>>), k + 1)
                ELSE ArrRest(t, j + 1, <<>>)
           [] t[j] = "{" ->
                LET k == SkipWs(t, j + 1) IN
                IF k <= Len(t) /\ t[k] = "}" THEN Done(Obj(<<>>), k + 1)
                ELSE ObjRest(t, j + 1, <<>>)
           [] OTHER -> Fail

\* serde_json::from_str / from_reader: one value, then only white space.
FromStr(t) ==
    LET r == ParseValue(t, 1) IN
    IF r.ok /\ SkipWs(t, r.pos) > Len(t) THEN [ok |-> TRUE, v |-> r.v] ELSE Fail

\* BufRead::lines: the text cut at every LF, a CR before the LF removed; text
\* after the last LF is a last line.
RECURSIVE LinesFrom(_, _)
LinesFrom(t, cur) ==
    IF t = <<>> THEN (IF cur = <<>> THEN <<>> ELSE <<cur>>)
    ELSE IF Head(t) = LF
    THEN <<(IF cur /= <<>> /\ cur[Len(cur)] = CR
            THEN SubSeq(cur, 1, Len(cur) - 1) ELSE cur)>>
         \o LinesFrom(Tail(t), <<>>)
    ELSE LinesFrom(Tail(t), Append(cur, Head(t)))

Lines(t) == LinesFrom(t, <<>>)

\* ------------------------------------------------------------ file system

SufTgz == <<".", "t", "g", "z">>
SufJsonGz == <<".", "j", "s", "o", "n", ".", "g", "z">>
SufJsonlGz == <<".", "j", "s", "o", "n", "l", ".", "g", "z">>
SufJsonl == <<".", "j", "s", "o", "n", "l">>

\* A text file's content: each line followed by LF.
TextOf(lines) == Flatten([i \in 1..Len(lines) |-> lines[i] \o <<LF>>])

\* Contents of a file: decompressed text, a tar archive (its entries in tar
\* order, each a path and its bytes), or bytes no decoder can read.
Text(data) == [fmt |-> "text", data |-> data]
Tar(entries) == [fmt |-> "tar", entries |-> entries]
Bad == [fmt |-> "bad"]

\* Directory entries: a regular file (utf8: whether its path converts with
\* Path::to_str), a directory, or something that is neither.
File(name, utf8, content) ==
    [kind |-> "file", name |-> name, utf8 |-> utf8, content |-> content]
Dir(name, readable, entries) ==
    [kind |-> "dir", name |-> name, readable |-> readable, entries |-> entries]
Other(name) == [kind |-> "other", name |-> name]

\* A path is its sequence of components; path_str joins them with "/".
RECURSIVE PathStr(_)
PathStr(path) ==
    IF path = <<>> THEN <<>>
    ELSE IF Len(path) = 1 THEN path[1]
    ELSE path[1] \o <<"/">> \o PathStr(Tail(path))

\* The scanner's test without the suffix of the files this tool writes.
ScanMatchesNoJsonl(path_str) ==
    \/ EndsWith(path_str, SufJsonGz)
    \/ EndsWith(path_str, SufTgz)

\* The test of find_input_files on a regular file's path.
ScanMatches(path_str) ==
    \/ EndsWith(path_str, SufJsonGz)
    \/ EndsWith(path_str, SufTgz)
    \/ EndsWith(path_str, SufJsonlGz)

RECURSIVE ScanDir(_, _, _)
RECURSIVE ScanEntries(_, _, _)

\* A directory that cannot be read passed over as if it were empty.
ScanDirLenient(dir, at, paths) ==
    IF ~dir.readable THEN [ok |-> TRUE, paths |-> paths]
    ELSE ScanEntries(dir.entries, at, paths)

\* fn r of find_input_files on the directory dir found at path at: the paths
\* pushed so far and after it, or an error when a directory cannot be read.
ScanDir(dir, at, paths) ==
    IF ~dir.readable THEN [ok |-> FALSE]
    ELSE ScanEntries(dir.entries, at, paths)

ScanEntries(es, at, paths) ==
    IF es = <<>> THEN [ok |-> TRUE, paths |-> paths]
    ELSE LET e == Head(es)
             path == Append(at, e.name) IN
         IF e.kind = "file"
         THEN IF e.utf8 /\ ScanMatches(PathStr(path))
              THEN ScanEntries(Tail(es), at, Append(paths, path))
              ELSE ScanEntries(Tail(es), at, paths)
         ELSE IF e.kind = "dir"
         THEN LET sub == ScanDir(e, path, paths) IN
              IF ~sub.ok THEN [ok |-> FALSE]
              ELSE ScanEntries(Tail(es), at, sub.paths)
         ELSE ScanEntries(Tail(es), at, paths)

\* The entry of directory dir that the relative path rel names.
RECURSIVE Lookup(_, _)
Lookup(dir, rel) ==
    LET e == dir.entries[CHOOSE i \in 1..Len(dir.entries) :
                            dir.entries[i].name = Head(rel)] IN
    IF Len(rel) = 1 THEN e ELSE Lookup(e, Tail(rel))

\* Path::file_name of a tar entry's path: its last component.
RECURSIVE FileName(_)
FileName(p) ==
    IF p /= <<>> /\ p[Len(p)] = "/" THEN FileName(SubSeq(p, 1, Len(p) - 1))
    ELSE IF \E i \in 1..Len(p) : p[i] = "/"
    THEN LET last == CHOOSE i \in 1..Len(p) :
                        p[i] = "/" /\ \A j \in (i + 1)..Len(p) : p[j] /= "/" IN
         SubSeq(p, last + 1, Len(p))
    ELSE p

\* Every entry handed to the line decoder.
EntryMatchesAny(entry_path) == TRUE

\* The test of read_tgz_to_channel on an entry's path.
EntryMatches(entry_path) == EndsWith(FileName(entry_path), SufJsonl)

\* The single-document decoder selected by the two-part suffix ".gz".
DispatchByGz(path_str) ==
    IF EndsWith(path_str, SufTgz) THEN "tgz"
    ELSE IF EndsWith(path_str, <<".", "g", "z">>) THEN "json"
    ELSE IF EndsWith(path_str, SufJsonlGz) THEN "jsonl"
    ELSE "none"

\* The decoder read_paths_to_channel selects for a path.
Dispatch(path_str) ==
    IF EndsWith(path_str, SufTgz) THEN "tgz"
    ELSE IF EndsWith(path_str, SufJsonGz) THEN "json"
    ELSE IF EndsWith(path_str, SufJsonlGz) THEN "jsonl"
    ELSE "none"

\* ------------------------------------------------------- bounded inputs

\* The most entries the input directory holds.
MaxEntries == 2

\* mpsc::sync_channel(10)
Cap == 10

KeyDOI == <<"D", "O", "I">>
KeyDoi == <<"d", "o", "i">>
KeyItems == <<"i", "t", "e", "m", "s">>

DoiA == Obj(<< <<KeyDOI, Str(<<"a">>)>> >>)
DoiB == Obj(<< <<KeyDoi, Str(<<"b", LF>>)>> >>)

NotJson == <<"n", "u", "l">>

\* Two well-formed lines, the second one ended by CR LF.
FLines ==
    File(<<"a">> \o SufJsonlGz, TRUE,
         Text(Serialize(DoiA) \o <<LF>> \o Serialize(DoiB) \o <<CR, LF>>))

\* A well-formed line, a malformed line, a well-formed line.
FBadLine ==
    File(<<"b">> \o SufJsonlGz, TRUE, Text(TextOf(<<<<"1">>, NotJson, <<"2">>>>)))

\* A document with an items array of two records.
FItems ==
    File(<<"c">> \o SufJsonGz, TRUE,
         Text(Serialize(Obj(<< <<KeyItems, Arr(<<Num(3), Str(<<"x", DQ>>)>>)>> >>))
              \o <<LF>>))

\* A document with no items field.
FNoItems == File(<<"d">> \o SufJsonGz, TRUE, Text(Serialize(DoiA)))

\* A document whose items field is not an array.
FItemsNum ==
    File(<<"e">> \o SufJsonGz, TRUE,
         Text(<<"{", SP>> \o SerStr(KeyItems) \o <<":", SP, "1", "}">>))

\* A tar file: x.jsonl (two lines), y.txt (not JSON), s/z.jsonl (one line).
FTar ==
    File(<<"f">> \o SufTgz, TRUE,
         Tar(<<[path |-> <<"x">> \o SufJsonl, data |-> TextOf(<<<<"4">>, <<"5">>>>)],
               [path |-> <<"y", ".", "t", "x", "t">>, data |-> NotJson],
               [path |-> <<"s", "/", "z">> \o SufJsonl, data |-> <<"6">>]>>))

\* A tar file whose first entry has a malformed second line.
FTarBad ==
    File(<<"g">> \o SufTgz, TRUE,
         Tar(<<[path |-> <<"x">> \o SufJsonl, data |-> TextOf(<<<<"7">>, NotJson>>)],
               [path |-> <<"z">> \o SufJsonl, data |-> TextOf(<<<<"8">>>>)]>>))

\* A file no decoder can read.
FCorrupt == File(<<"h">> \o SufJsonlGz, TRUE, Bad)

\* Enough lines to fill the channel and leave the producer one more to send.
FBig ==
    File(<<"i">> \o SufJsonlGz, TRUE,
         Text(TextOf([k \in 1..(Cap + 1) |-> Digits(10 + k)])))

\* A subdirectory: files the scanner passes over and one it takes.
DSub ==
    Dir(<<"s">>, TRUE,
        <<File(<<"r", ".", "t", "x", "t">>, TRUE, Text(NotJson)),
          File(<<"n">> \o SufTgz, FALSE, Bad),
          Other(<<"o">> \o SufTgz),
          FItemsNum>>)

\* A subdirectory that cannot be read.
DUnreadable == Dir(<<"u">>, FALSE, <<>>)

Catalogue ==
    {FLines, FBadLine, FItems, FNoItems, FTar, FTarBad, FCorrupt, FBig, DSub,
     DUnreadable}

\* The texts a directory entry holds: the content of its text files and of
\* the entries of its tar files.
RECURSIVE TextsOf(_)
TextsOf(e) ==
    IF e.kind = "dir"
    THEN UNION {TextsOf(e.entries[i]) : i \in 1..Len(e.entries)}
    ELSE IF e.kind /= "file" THEN {}
    ELSE CASE e.content.fmt = "text" -> {e.content.data}
           [] e.content.fmt = "tar" ->
                {e.content.entries[i].data : i \in 1..Len(e.content.entries)}
           [] OTHER -> {}

\* The texts of the catalogue.
CatalogueDocs == UNION {TextsOf(e) : e \in Catalogue}

\* Lines over the texts of the catalogue, computed once.
Split == [t \in CatalogueDocs |-> Lines(t)]

\* BufRead::lines on a text the program reads.
SplitLines(t) == IF t \in DOMAIN Split THEN Split[t] ELSE Lines(t)

\* The texts of the catalogue and their lines.
CatalogueTexts ==
    CatalogueDocs \cup UNION {{Split[t][i] : i \in 1..Len(Split[t])} : t \in CatalogueDocs}

\* FromStr over the texts of the catalogue, computed once.
Parsed == [t \in CatalogueTexts |-> FromStr(t)]

\* serde_json::from_str / from_reader on a text the program reads.
ParseJson(t) == IF t \in DOMAIN Parsed THEN Parsed[t] ELSE FromStr(t)

\* The listings of the input directory: entries of the catalogue, each name
\* once, in the order read_dir yields them.
Listings ==
    UNION {{s \in [1..n -> Catalogue] : \A a, b \in 1..n : a /= b => s[a] /= s[b]} :
           n \in 0..MaxEntries}

\* The input directory: readable with one of the listings, or unreadable.
Roots ==
    {Dir(<<"i", "n">>, TRUE, s) : s \in Listings} \cup {Dir(<<"i", "n">>, FALSE, <<>>)}

NoPath == <<>>
InDir == << <<"i", "n">> >>
OutInside == << <<"i", "n">>, <<"s">>, <<"o", "u", "t">> \o SufJsonlGz >>
OutOutside == << <<"o", "u", "t">> \o SufJsonlGz >>

\* The command lines: struct Options, without verbose (it adds only progress
\* messages on the error stream).
AllOptions ==
    [version : BOOLEAN, list_files : BOOLEAN, input_dir : {NoPath, InDir},
     count_records : BOOLEAN, output_file : {NoPath, OutInside, OutOutside}]

\* --version and --list-files are exercised alone and with --count-records.
OptionSets ==
    {o \in AllOptions :
        /\ o.version => ~o.list_files /\ o.output_file = NoPath
        /\ o.list_files => o.output_file = NoPath
        /\ o.input_dir = NoPath => ~o.version}

\* ------------------------------------------------------------------ state

Pipelines == {"count", "write"}

VARIABLES
    opts,      \* the command line (struct Options)
    root,      \* the input directory on disk
    pcMain,    \* where the invoking thread is in main and main_r
    exitCode,  \* the status the process exited with, or NoExit
    paths,     \* per pipeline: the Vec<PathBuf> moved into the producer thread
    prod,      \* per pipeline: the producer thread's position
    chan,      \* per pipeline: the records buffered in the channel
    rx,        \* per pipeline: the Receiver ("none", "alive", "dropped")
    sent,      \* per pipeline: the records send() has accepted, in order
    recv,      \* per pipeline: the records rx.iter() has yielded, in order
    count,     \* per pipeline: the consumer's local count
    stdout,    \* the lines printed
    stderr,    \* the messages on the error stream, each with its thread
    outFile,   \* the output file on disk, or NoFile: whether its gzip stream
               \* is finished (closed) and, when it is, the text it holds
    wbuf,      \* the text the writer has been given
    ingested,  \* whether a decoder has opened an input file
    result,    \* what main_r returned: "none" yet, "ok", or the error
    call,      \* a function called on its own: its name and arguments, or NoCall
    ret        \* what that call returned, or NoCall before it returns

vars ==
    <<opts, root, pcMain, exitCode, paths, prod, chan, rx, sent, recv, count,
      stdout, stderr, outFile, wbuf, ingested, result, call, ret>>

\* exitCode while the process runs (exit statuses are 0 and 1).
NoExit == -1
NoFile == [exists |-> FALSE]
NoCall == [fn |-> "none"]

Idle == [pc |-> "idle", i |-> 0, e |-> 0, l |-> 0, err |-> "none"]

Init ==
    /\ opts \in OptionSets
    /\ root \in Roots
    /\ pcMain = "version"
    /\ exitCode = NoExit
    /\ paths = [p \in Pipelines |-> <<>>]
    /\ prod = [p \in Pipelines |-> Idle]
    /\ chan = [p \in Pipelines |-> <<>>]
    /\ rx = [p \in Pipelines |-> "none"]
    /\ sent = [p \in Pipelines |-> <<>>]
    /\ recv = [p \in Pipelines |-> <<>>]
    /\ count = [p \in Pipelines |-> 0]
    /\ stdout = <<>>
    /\ stderr = <<>>
    /\ outFile = NoFile
    /\ wbuf = <<>>
    /\ ingested = FALSE
    /\ result = "none"
    /\ call = NoCall
    /\ ret = NoCall

\* expect_input_files: the scan of the input directory, or an error when no
\* directory was given or one cannot be read.
ExpectInputFiles ==
    IF opts.input_dir = NoPath THEN [ok |-> FALSE, err |-> "no_input_dir"]
    ELSE LET r == ScanDir(root, opts.input_dir, <<>>) IN
         IF r.ok THEN [ok |-> TRUE, paths |-> r.paths]
         ELSE [ok |-> FALSE, err |-> "scan"]

\* The sender lives from the spawn until read_paths_to_channel returns.
TxAlive(p) == prod[p].pc \in {"loop", "jsonl", "json", "tgz", "entry"}

\* The producer thread runs from the spawn until its closure has returned.
ThreadLive(p) == prod[p].pc \notin {"idle", "exited"}

\* ------------------------------------------------------- producer thread

CurPath(p) == paths[p][prod[p].i]

\* The file on disk that the producer's current path names.
CurFile(p) ==
    Lookup(root, SubSeq(CurPath(p), Len(opts.input_dir) + 1, Len(CurPath(p))))

NextFile(st) == [pc |-> "loop", i |-> st.i + 1, e |-> 0, l |-> 0, err |-> "none"]
Returned(st, err) == [st EXCEPT !.pc = "returned", !.err = err]

\* The items of a document taken from the last to the first.
ItemsOfReversed(doc) ==
    LET items == ValueGet(doc, KeyItems) IN
    IF items.t = "arr"
    THEN Arr([k \in 1..Len(items.a) |-> items.a[Len(items.a) + 1 - k]])
    ELSE NoValue

\* The top-level "items" array of a document, or NoValue.
ItemsOf(doc) ==
    LET items == ValueGet(doc, KeyItems) IN
    IF items.t = "arr" THEN items ELSE NoValue

ShapeDiagnostic == [th |-> "producer", msg |-> "unrecognised_json"]

\* The missing items array treated as an error of the decoder.
ShapeErrorFatal(st) ==
    [prod |-> Returned(st, "shape"), log |-> <<ShapeDiagnostic>>, opened |-> TRUE]

\* The else branch of read_json_gz_to_channel: the diagnostic is printed,
\* Ok(()) returns and the loop of read_paths_to_channel goes on.
ShapeError(st) ==
    [prod |-> NextFile(st), log |-> <<ShapeDiagnostic>>, opened |-> TRUE]

\* One turn of the loop of read_paths_to_channel up to the first record of
\* the file: the decoder chosen, the file opened and, for a .json.gz, the
\* document parsed and its items looked up.
DispatchStep(st, file, path_str) ==
    LET kind == IF file.utf8 THEN Dispatch(path_str) ELSE "none"
        c == file.content IN
    CASE kind = "tgz" ->
            [prod |-> IF c.fmt = "tar" THEN [st EXCEPT !.pc = "tgz", !.e = 1]
                      ELSE Returned(st, "io"),
             log |-> <<>>, opened |-> TRUE]
      [] kind = "json" ->
            IF c.fmt /= "text"
            THEN [prod |-> Returned(st, "io"), log |-> <<>>, opened |-> TRUE]
            ELSE LET doc == ParseJson(c.data) IN
                 IF ~doc.ok
                 THEN [prod |-> Returned(st, "parse"), log |-> <<>>, opened |-> TRUE]
                 ELSE IF ItemsOf(doc.v) /= NoValue
                 THEN [prod |-> [st EXCEPT !.pc = "json", !.l = 1],
                       log |-> <<>>, opened |-> TRUE]
                 ELSE ShapeError(st)
      [] kind = "jsonl" ->
            [prod |-> IF c.fmt = "text" THEN [st EXCEPT !.pc = "jsonl", !.l = 1]
                      ELSE Returned(st, "io"),
             log |-> <<>>, opened |-> TRUE]
      [] OTHER -> [prod |-> NextFile(st), log |-> <<>>, opened |-> FALSE]

\* A bound off by one: send accepts a record when the buffer is full.
CanSendWhenFull(c) == Len(c) <= Cap

\* SyncSender::send blocks while the buffer is full.
CanSend(c) == Len(c) < Cap

\* The buffer as a stack: a record sent overtakes the ones buffered.
ChanPushFront(c, v) == <<v>> \o c

\* The buffer is a queue: send puts a record at its back.
ChanPush(c, v) == Append(c, v)

\* A send that waits for room whether or not the receiver is there.
SendNeverFails(p, v, next) ==
    /\ CanSend(chan[p])
    /\ chan' = [chan EXCEPT ![p] = ChanPush(@, v)]
    /\ sent' = [sent EXCEPT ![p] = Append(@, v)]
    /\ prod' = [prod EXCEPT ![p] = next]

\* channel.send(v)?: the record is buffered and the producer goes on to next,
\* or the receiver is gone and the error returns from read_paths_to_channel.
Send(p, v, next) ==
    \/ /\ rx[p] = "alive"
       /\ CanSend(chan[p])
       /\ chan' = [chan EXCEPT ![p] = ChanPush(@, v)]
       /\ sent' = [sent EXCEPT ![p] = Append(@, v)]
       /\ prod' = [prod EXCEPT ![p] = next]
    \/ /\ rx[p] = "dropped"
       /\ prod' = [prod EXCEPT ![p] = Returned(@, "send")]
       /\ UNCHANGED <<chan, sent>>

\* The malformed line skipped and the loop going on.
OnParseErrorSkip(st) == [st EXCEPT !.l = st.l + 1]

\* What a line that fails to parse does to the producer: the error returns
\* from the decoder and from read_paths_to_channel.
OnParseError(st) == Returned(st, "parse")

\* One turn of the line loop of read_jsonl_gz_to_channel and of
\* read_jsonl_to_channel over lines; after is the producer's position when
\* the lines are exhausted.
LineLoop(p, lines, after) ==
    LET st == prod[p] IN
    IF st.l > Len(lines)
    THEN prod' = [prod EXCEPT ![p] = after] /\ UNCHANGED <<chan, sent>>
    ELSE LET parsed == ParseJson(lines[st.l]) IN
         IF ~parsed.ok
         THEN prod' = [prod EXCEPT ![p] = OnParseError(st)] /\ UNCHANGED <<chan, sent>>
         ELSE Send(p, parsed.v, [st EXCEPT !.l = st.l + 1])

Running(p) == exitCode = NoExit /\ ThreadLive(p)

\* read_paths_to_channel: the next path of the list is dispatched.
ProdDispatch(p) ==
    /\ Running(p)
    /\ prod[p].pc = "loop"
    /\ prod[p].i <= Len(paths[p])
    /\ LET r == DispatchStep(prod[p], CurFile(p), PathStr(CurPath(p))) IN
       /\ prod' = [prod EXCEPT ![p] = r.prod]
       /\ stderr' = stderr \o r.log
       /\ ingested' = (ingested \/ r.opened)
    /\ UNCHANGED <<call, ret, opts, root, pcMain, exitCode, paths, chan, rx, sent, recv, count,
                   stdout, outFile, wbuf, result>>

\* read_paths_to_channel: the list is exhausted, Ok(()) returns and the
\* sender is dropped.
ProdLoopEnd(p) ==
    /\ Running(p)
    /\ prod[p].pc = "loop"
    /\ prod[p].i > Len(paths[p])
    /\ prod' = [prod EXCEPT ![p] = Returned(@, "none")]
    /\ UNCHANGED <<call, ret, opts, root, pcMain, exitCode, paths, chan, rx, sent, recv, count,
                   stdout, stderr, outFile, wbuf, ingested, result>>

\* read_jsonl_gz_to_channel: one turn of its line loop.
ReadJsonlGz(p) ==
    /\ Running(p)
    /\ prod[p].pc = "jsonl"
    /\ LineLoop(p, SplitLines(CurFile(p).content.data), NextFile(prod[p]))
    /\ UNCHANGED <<call, ret, opts, root, pcMain, exitCode, paths, rx, recv, count, stdout,
                   stderr, outFile, wbuf, ingested, result>>

\* read_json_gz_to_channel: one turn of its loop over the items.
ReadJsonGz(p) ==
    /\ Running(p)
    /\ prod[p].pc = "json"
    /\ LET items == ItemsOf(ParseJson(CurFile(p).content.data).v).a
           st == prod[p] IN
       IF st.l > Len(items)
       THEN prod' = [prod EXCEPT ![p] = NextFile(st)] /\ UNCHANGED <<chan, sent>>
       ELSE Send(p, items[st.l], [st EXCEPT !.l = st.l + 1])
    /\ UNCHANGED <<call, ret, opts, root, pcMain, exitCode, paths, rx, recv, count, stdout,
                   stderr, outFile, wbuf, ingested, result>>

\* read_tgz_to_channel: one turn of its loop over the archive's entries; an
\* entry whose file name ends with .jsonl is handed to read_jsonl_to_channel.
ReadTgz(p) ==
    /\ Running(p)
    /\ prod[p].pc = "tgz"
    /\ LET entries == CurFile(p).content.entries
           st == prod[p] IN
       prod' = [prod EXCEPT ![p] =
                   IF st.e > Len(entries) THEN NextFile(st)
                   ELSE IF EntryMatches(entries[st.e].path)
                   THEN [st EXCEPT !.pc = "entry", !.l = 1]
                   ELSE [st EXCEPT !.e = st.e + 1]]
    /\ UNCHANGED <<call, ret, opts, root, pcMain, exitCode, paths, chan, rx, sent, recv, count,
                   stdout, stderr, outFile, wbuf, ingested, result>>

\* read_jsonl_to_channel: one turn of its line loop over a tar entry.
ReadJsonl(p) ==
    /\ Running(p)
    /\ prod[p].pc = "entry"
    /\ LET st == prod[p] IN
       LineLoop(p, SplitLines(CurFile(p).content.entries[st.e].data),
                [st EXCEPT !.pc = "tgz", !.e = st.e + 1, !.l = 0])
    /\ UNCHANGED <<call, ret, opts, root, pcMain, exitCode, paths, rx, recv, count, stdout,
                   stderr, outFile, wbuf, ingested, result>>

\* The closure of thread::spawn after read_paths_to_channel has returned: an
\* error is printed by the producer thread, and the thread ends.
ProdExit(p) ==
    /\ Running(p)
    /\ prod[p].pc = "returned"
    /\ prod' = [prod EXCEPT ![p].pc = "exited"]
    /\ stderr' = IF prod[p].err = "none" THEN stderr
                 ELSE Append(stderr, [th |-> "producer", msg |-> "failed_read",
                                      err |-> prod[p].err])
    /\ UNCHANGED <<call, ret, opts, root, pcMain, exitCode, paths, chan, rx, sent, recv, count,
                   stdout, outFile, wbuf, ingested, result>>

Producer(p) ==
    \/ ProdDispatch(p)
    \/ ProdLoopEnd(p)
    \/ ReadJsonlGz(p)
    \/ ReadJsonGz(p)
    \/ ReadTgz(p)
    \/ ReadJsonl(p)
    \/ ProdExit(p)

\* ------------------------------------------------------- invoking thread

\* The iterator ending as soon as the buffer is empty.
RecvEmpty(c, txAlive) == c = <<>>

\* Receiver::iter ends when the buffer is empty and the sender is dropped;
\* while the sender lives an empty buffer blocks the consumer.
RecvDisconnected(c, txAlive) == c = <<>> /\ ~txAlive

\* The record the consumer receives, and the buffer after it.
ChanFront(c) == Head(c)
ChanRest(c) == Tail(c)

\* thread::spawn(read_paths_to_channel(paths, tx)) on a new sync_channel.
Spawn(p, files) ==
    /\ paths' = [paths EXCEPT ![p] = files]
    /\ prod' = [prod EXCEPT ![p] = [pc |-> "loop", i |-> 1, e |-> 0, l |-> 0,
                                    err |-> "none"]]
    /\ chan' = [chan EXCEPT ![p] = <<>>]
    /\ rx' = [rx EXCEPT ![p] = "alive"]

\* main_r: if options.version
MainVersion ==
    /\ exitCode = NoExit
    /\ pcMain = "version"
    /\ stdout' = IF opts.version THEN Append(stdout, [k |-> "version"]) ELSE stdout
    /\ pcMain' = "list"
    /\ UNCHANGED <<call, ret, opts, root, exitCode, paths, prod, chan, rx, sent, recv, count,
                   stderr, outFile, wbuf, ingested, result>>

\* main_r: if options.list_files
MainList ==
    /\ exitCode = NoExit
    /\ pcMain = "list"
    /\ LET r == ExpectInputFiles IN
       IF ~opts.list_files
       THEN pcMain' = "count" /\ UNCHANGED <<stdout, result>>
       ELSE IF ~r.ok
       THEN pcMain' = "returned" /\ result' = r.err /\ UNCHANGED stdout
       ELSE /\ pcMain' = "count"
            /\ stdout' = stdout \o [i \in 1..Len(r.paths) |->
                                      [k |-> "path", path |-> r.paths[i]]]
            /\ UNCHANGED result
    /\ UNCHANGED <<call, ret, opts, root, exitCode, paths, prod, chan, rx, sent, recv, count,
                   stderr, outFile, wbuf, ingested>>

\* main_r: if options.count_records, up to the spawn of the producer.
MainCount ==
    /\ exitCode = NoExit
    /\ pcMain = "count"
    /\ LET r == ExpectInputFiles IN
       IF ~opts.count_records
       THEN pcMain' = "out" /\ UNCHANGED <<paths, prod, chan, rx, result>>
       ELSE IF ~r.ok
       THEN /\ pcMain' = "returned" /\ result' = r.err
            /\ UNCHANGED <<paths, prod, chan, rx>>
       ELSE pcMain' = "cdrain" /\ Spawn("count", r.paths) /\ UNCHANGED result
    /\ UNCHANGED <<call, ret, opts, root, exitCode, sent, recv, count, stdout, stderr, outFile,
                   wbuf, ingested>>

\* The counting loop: for _ in rx.iter() { count += 1 }
MainCountRecv ==
    /\ exitCode = NoExit
    /\ pcMain = "cdrain"
    /\ chan["count"] /= <<>>
    /\ recv' = [recv EXCEPT !["count"] = Append(@, ChanFront(chan["count"]))]
    /\ chan' = [chan EXCEPT !["count"] = ChanRest(@)]
    /\ count' = [count EXCEPT !["count"] = @ + 1]
    /\ UNCHANGED <<call, ret, opts, root, pcMain, exitCode, paths, prod, rx, sent, stdout,
                   stderr, outFile, wbuf, ingested, result>>

\* The counting loop ends and the count is printed.
MainCountPrint ==
    /\ exitCode = NoExit
    /\ pcMain = "cdrain"
    /\ RecvDisconnected(chan["count"], TxAlive("count"))
    /\ stdout' = Append(stdout, [k |-> "count", n |-> count["count"]])
    /\ pcMain' = "cjoin"
    /\ UNCHANGED <<call, ret, opts, root, exitCode, paths, prod, chan, rx, sent, recv, count,
                   stderr, outFile, wbuf, ingested, result>>

\* The counting pipeline's join returning without waiting for the thread.
MainCountJoinNoWait ==
    /\ exitCode = NoExit
    /\ pcMain = "cjoin"
    /\ rx' = [rx EXCEPT !["count"] = "dropped"]
    /\ pcMain' = "out"
    /\ UNCHANGED <<call, ret, opts, root, exitCode, paths, prod, chan, sent, recv,
                   count, stdout, stderr, outFile, wbuf, ingested, result>>

\* read_thread.join() of the counting pipeline; the receiver is dropped at
\* the end of the block.
MainCountJoin ==
    /\ exitCode = NoExit
    /\ pcMain = "cjoin"
    /\ prod["count"].pc = "exited"
    /\ rx' = [rx EXCEPT !["count"] = "dropped"]
    /\ pcMain' = "out"
    /\ UNCHANGED <<call, ret, opts, root, exitCode, paths, prod, chan, sent, recv, count,
                   stdout, stderr, outFile, wbuf, ingested, result>>

\* The output-path guard: output_file.starts_with(&input_dir)
PathConflict(output_file, input_dir) == IsPrefix(input_dir, output_file)

\* main_r: if let Some(output_file), up to the spawn of the producer: the
\* scan, then the guard (which exits the process), then channel and thread.
MainOut ==
    /\ exitCode = NoExit
    /\ pcMain = "out"
    /\ LET r == ExpectInputFiles IN
       IF opts.output_file = NoPath
       THEN /\ pcMain' = "returned" /\ result' = "ok"
            /\ UNCHANGED <<paths, prod, chan, rx, stderr, exitCode>>
       ELSE IF ~r.ok
       THEN /\ pcMain' = "returned" /\ result' = r.err
            /\ UNCHANGED <<paths, prod, chan, rx, stderr, exitCode>>
       ELSE IF PathConflict(opts.output_file, opts.input_dir)
       THEN /\ stderr' = Append(stderr, [th |-> "main", msg |-> "output_in_input"])
            /\ exitCode' = 1
            /\ pcMain' = "exit"
            /\ UNCHANGED <<paths, prod, chan, rx, result>>
       ELSE /\ pcMain' = "create" /\ Spawn("write", r.paths)
            /\ UNCHANGED <<stderr, exitCode, result>>
    /\ UNCHANGED <<call, ret, opts, root, sent, recv, count, stdout, outFile, wbuf, ingested>>

\* The receiver goes out of scope: what the buffer still holds is discarded.
DropReceiver(p) ==
    /\ rx' = [rx EXCEPT ![p] = "dropped"]
    /\ chan' = [chan EXCEPT ![p] = <<>>]

\* write_chan_to_json_gz: File::create(output_file)?
MainCreate ==
    /\ exitCode = NoExit
    /\ pcMain = "create"
    /\ \E ok \in BOOLEAN :
        IF ok
        THEN /\ outFile' = [exists |-> TRUE, data |-> <<>>, closed |-> FALSE]
             /\ pcMain' = "wdrain"
             /\ UNCHANGED <<rx, chan, result>>
        ELSE /\ DropReceiver("write")
             /\ pcMain' = "returned" /\ result' = "io"
             /\ UNCHANGED outFile
    /\ UNCHANGED <<call, ret, opts, root, exitCode, paths, prod, sent, recv, count, stdout,
                   stderr, wbuf, ingested>>

\* What the writer puts out for one record: its JSON text and a newline.
RecordText(entry) == Serialize(entry) \o <<LF>>

\* The writing loop, one record: serde_json::to_writer(&mut writer, &entry)?;
\* writer.write(b"\n")?.  The writer (a BufWriter over a GzEncoder) takes the
\* text, or a write to the file fails and the error returns.
MainWriteRecv ==
    /\ exitCode = NoExit
    /\ pcMain = "wdrain"
    /\ chan["write"] /= <<>>
    /\ LET entry == ChanFront(chan["write"]) IN
       /\ recv' = [recv EXCEPT !["write"] = Append(@, entry)]
       /\ \E ok \in BOOLEAN :
            IF ok
            THEN /\ wbuf' = wbuf \o RecordText(entry)
                 /\ chan' = [chan EXCEPT !["write"] = ChanRest(@)]
                 /\ count' = [count EXCEPT !["write"] = @ + 1]
                 /\ UNCHANGED <<rx, pcMain, result>>
            ELSE /\ DropReceiver("write")
                 /\ pcMain' = "returned" /\ result' = "io"
                 /\ UNCHANGED <<wbuf, count>>
    /\ UNCHANGED <<call, ret, opts, root, exitCode, paths, prod, sent, stdout, stderr, outFile,
                   ingested>>

\* What drop does to the file when the writer holds text: the buffers are
\* flushed and the gzip stream finished, or that last write fails, drop
\* ignores the error and the file stays a truncated stream.
DropWriter(f, text, ok) ==
    IF ok THEN [f EXCEPT !.data = text, !.closed = TRUE] ELSE f

\* The writing loop ends and Ok(()) returns; the writer is dropped.
MainWriteEnd ==
    /\ exitCode = NoExit
    /\ pcMain = "wdrain"
    /\ RecvDisconnected(chan["write"], TxAlive("write"))
    /\ \E ok \in BOOLEAN : outFile' = DropWriter(outFile, wbuf, ok)
    /\ rx' = [rx EXCEPT !["write"] = "dropped"]
    /\ pcMain' = "wjoin"
    /\ UNCHANGED <<call, ret, opts, root, exitCode, paths, prod, chan, sent, recv, count,
                   stdout, stderr, wbuf, ingested, result>>

\* The writing pipeline's join returning without waiting for the thread.
MainWriteJoinNoWait ==
    /\ exitCode = NoExit
    /\ pcMain = "wjoin"
    /\ pcMain' = "returned"
    /\ result' = "ok"
    /\ UNCHANGED <<call, ret, opts, root, exitCode, paths, prod, chan, rx, sent, recv,
                   count, stdout, stderr, outFile, wbuf, ingested>>

\* read_thread.join() of the writing pipeline, then Ok(()).
MainWriteJoin ==
    /\ exitCode = NoExit
    /\ pcMain = "wjoin"
    /\ prod["write"].pc = "exited"
    /\ pcMain' = "returned"
    /\ result' = "ok"
    /\ UNCHANGED <<call, ret, opts, root, exitCode, paths, prod, chan, rx, sent, recv, count,
                   stdout, stderr, outFile, wbuf, ingested>>

\* main: exit(0) on Ok, the error printed and exit(1) on Err.  Exiting ends
\* the producer thread wherever it is.
MainExit ==
    /\ exitCode = NoExit
    /\ pcMain = "returned"
    /\ exitCode' = IF result = "ok" THEN 0 ELSE 1
    /\ stderr' = IF result = "ok" THEN stderr
                 ELSE Append(stderr, [th |-> "main", msg |-> "error", err |-> result])
    /\ pcMain' = "exit"
    /\ UNCHANGED <<call, ret, opts, root, paths, prod, chan, rx, sent, recv, count, stdout,
                   outFile, wbuf, ingested, result>>

Main ==
    \/ MainVersion
    \/ MainList
    \/ MainCount
    \/ MainCountRecv
    \/ MainCountPrint
    \/ MainCountJoin
    \/ MainOut
    \/ MainCreate
    \/ MainWriteRecv
    \/ MainWriteEnd
    \/ MainWriteJoin
    \/ MainExit

Next == Main \/ \E p \in Pipelines : Producer(p)

Spec == Init /\ [][Next]_vars

\* The two threads are scheduled fairly.
FairSpec == Spec /\ WF_vars(Main) /\ \A p \in Pipelines : WF_vars(Producer(p))

\* ------------------------------------------------ functions on their own

\* Option<String>
None == [some |-> FALSE]
Some(x) == [some |-> TRUE, v |-> x]

\* Value::as_str after Value::get: the string of a string value.
AsStr(v) == IF v.t = "str" THEN Some(v.s) ELSE None

\* The two keys looked up in the other order.
GetDoiLowerFirst(record) ==
    LET lower == AsStr(ValueGet(record, KeyDoi)) IN
    IF lower.some THEN lower ELSE AsStr(ValueGet(record, KeyDOI))

\* get_doi_from_record: the string under "DOI", else the string under "doi",
\* else None.
GetDoiFromRecord(record) ==
    LET upper == AsStr(ValueGet(record, KeyDOI)) IN
    IF upper.some THEN upper ELSE AsStr(ValueGet(record, KeyDoi))

\* What a member of a record may be, NoValue when the key is missing.
MemberValues ==
    {NoValue, Str(<<"a">>), Str(<<"b", "/", "c">>), Str(<<>>), Num(1), Null,
     Arr(<<Str(<<"a">>)>>), DoiA}

\* The object with the given values under "DOI" and "doi".
DoiRecord(upper, lower) ==
    Obj((IF upper = NoValue THEN <<>> ELSE << <<KeyDOI, upper>> >>)
        \o (IF lower = NoValue THEN <<>> ELSE << <<KeyDoi, lower>> >>))

\* The records get_doi_from_record is called on: objects with every pair of
\* members, and values that are not objects.
DoiRecords ==
    {DoiRecord(u, l) : u \in MemberValues, l \in MemberValues}
    \cup {Null, Bool(TRUE), Num(7), Str(KeyDOI), Arr(<<DoiA, DoiB>>)}

\* Path strings for the dispatcher: stems and endings, among them endings
\* that hold a decoder's suffix without ending with it.
NameStems ==
    {<<>>, <<"a">>, <<"d", "/", "a">>, <<"a">> \o SufTgz, <<"a">> \o SufJsonGz,
     <<"a">> \o SufJsonlGz, <<"a", ".", "j", "s", "o", "n">>}

NameEndings ==
    {SufTgz, SufJsonGz, SufJsonlGz, SufJsonl, <<>>, <<".", "g", "z">>,
     <<".", "j", "s", "o", "n">>, <<"t", "g", "z">>, <<"l", ".", "g", "z">>,
     SufTgz \o <<"x">>, SufJsonGz \o <<"/">>, <<".", "T", "G", "Z">>}

PathStrs == {s \o e : s \in NameStems, e \in NameEndings} \ {<<>>}

\* What a file given to the dispatcher holds: a line of JSON, or nothing a
\* decoder can read.
CallContents == {Text(TextOf(<< <<"1">> >>)), Bad}

\* The calls: read_paths_to_channel on a list of one path, and
\* get_doi_from_record on a record.
Calls ==
    {[fn |-> "read_paths", path_str |-> n, content |-> c] :
        n \in PathStrs, c \in CallContents}
    \cup {[fn |-> "get_doi", record |-> r] : r \in DoiRecords}

\* A function about to be called on its own: no thread has started.
FnInit ==
    /\ call \in Calls
    /\ ret = NoCall
    /\ opts = [version |-> FALSE, list_files |-> FALSE, input_dir |-> NoPath,
               count_records |-> FALSE, output_file |-> NoPath]
    /\ root = Dir(<<"i", "n">>, TRUE, <<>>)
    /\ pcMain = "version"
    /\ exitCode = NoExit
    /\ paths = [p \in Pipelines |-> <<>>]
    /\ prod = [p \in Pipelines |-> Idle]
    /\ chan = [p \in Pipelines |-> <<>>]
    /\ rx = [p \in Pipelines |-> "none"]
    /\ sent = [p \in Pipelines |-> <<>>]
    /\ recv = [p \in Pipelines |-> <<>>]
    /\ count = [p \in Pipelines |-> 0]
    /\ stdout = <<>>
    /\ stderr = <<>>
    /\ outFile = NoFile
    /\ wbuf = <<>>
    /\ ingested = FALSE
    /\ result = "none"

\* The producer at the first path of its list.
AtFirstPath == [pc |-> "loop", i |-> 1, e |-> 0, l |-> 0, err |-> "none"]

\* read_paths_to_channel on the one path: the decoder the dispatcher selects
\* and the turn of the loop on that path.
CallReadPaths ==
    /\ call.fn = "read_paths"
    /\ ret = NoCall
    /\ ret' = [fn |-> call.fn,
               decoder |-> Dispatch(call.path_str),
               step |-> DispatchStep(AtFirstPath,
                                     File(call.path_str, TRUE, call.content),
                                     call.path_str)]
    /\ UNCHANGED <<call, opts, root, pcMain, exitCode, paths, prod, chan, rx, sent,
                   recv, count, stdout, stderr, outFile, wbuf, ingested, result>>

\* get_doi_from_record on the record.
CallGetDoi ==
    /\ call.fn = "get_doi"
    /\ ret = NoCall
    /\ ret' = [fn |-> call.fn, doi |-> GetDoiFromRecord(call.record)]
    /\ UNCHANGED <<call, opts, root, pcMain, exitCode, paths, prod, chan, rx, sent,
                   recv, count, stdout, stderr, outFile, wbuf, ingested, result>>

FnNext == CallReadPaths \/ CallGetDoi

FnSpec == FnInit /\ [][FnNext]_vars

\* ------------------------------------------------- the consumers' loops

\* The consumer of pipeline p is in its loop over rx.iter().
Draining(p) == pcMain = (IF p = "count" THEN "cdrain" ELSE "wdrain")

\* The loop was entered (the writer's only after File::create succeeded).
LoopBegan(p) == IF p = "count" THEN rx["count"] /= "none" ELSE outFile.exists

\* The loop has been left, normally or by an error returned out of it.
LoopOver(p) == LoopBegan(p) /\ ~Draining(p)

\* The loop has been left because the iterator ended (only the writer's loop
\* can be left otherwise, by an I/O error).
LoopEndedNormally(p) == LoopOver(p) /\ ~(p = "write" /\ result = "io")

\* The count the counting consumer has printed, as a set (empty before).
PrintedCounts == {stdout[i].n : i \in {j \in DOMAIN stdout : stdout[j].k = "count"}}

\* ------------------------------------------- what the input files hold

\* The records of a sequence of lines up to the first line that is not JSON.
RECURSIVE RefParseLines(_)
RefParseLines(lines) ==
    IF lines = <<>> THEN [recs |-> <<>>, ok |-> TRUE]
    ELSE LET r == ParseJson(Head(lines)) IN
         IF ~r.ok THEN [recs |-> <<>>, ok |-> FALSE]
         ELSE LET rest == RefParseLines(Tail(lines)) IN
              [recs |-> <<r.v>> \o rest.recs, ok |-> rest.ok]

\* A tar entry whose file name ends with ".jsonl".
IsJsonlEntry(entry) ==
    LET name == FileName(entry.path) IN
    /\ Len(name) >= 6
    /\ SubSeq(name, Len(name) - 5, Len(name)) = <<".", "j", "s", "o", "n", "l">>

\* The records of the .jsonl entries of a tar file, in entry order then line
\* order, up to the first line that is not JSON.
RECURSIVE RefTar(_)
RefTar(entries) ==
    IF entries = <<>> THEN [recs |-> <<>>, ok |-> TRUE]
    ELSE IF ~IsJsonlEntry(Head(entries)) THEN RefTar(Tail(entries))
    ELSE LET r == RefParseLines(SplitLines(Head(entries).data)) IN
         IF ~r.ok THEN r
         ELSE LET rest == RefTar(Tail(entries)) IN
              [recs |-> r.recs \o rest.recs, ok |-> rest.ok]

\* The file a path of the scan names.
FileAt(path) == Lookup(root, SubSeq(path, Len(opts.input_dir) + 1, Len(path)))

\* A path names a line-delimited file all of whose lines are JSON: a
\* .jsonl.gz file, or a .tgz file whose .jsonl entries are.
WellFormedLineFile(path) ==
    LET f == FileAt(path)
        s == PathStr(path) IN
    \/ /\ EndsWith(s, SufJsonlGz) /\ f.content.fmt = "text"
       /\ RefParseLines(SplitLines(f.content.data)).ok
    \/ /\ EndsWith(s, SufTgz) /\ f.content.fmt = "tar"
       /\ RefTar(f.content.entries).ok

\* The number of lines of a line-delimited file: of a .jsonl.gz file, or of
\* the .jsonl entries of a .tgz file.
RECURSIVE SumLens(_)
SumLens(ss) == IF ss = <<>> THEN 0 ELSE Len(Head(ss)) + SumLens(Tail(ss))

LineCount(path) ==
    LET f == FileAt(path) IN
    IF EndsWith(PathStr(path), SufJsonlGz) THEN Len(SplitLines(f.content.data))
    ELSE SumLens([k \in 1..Len(f.content.entries) |->
                    IF IsJsonlEntry(f.content.entries[k])
                    THEN SplitLines(f.content.entries[k].data) ELSE <<>>])

RECURSIVE TotalLines(_)
TotalLines(ps) == IF ps = <<>> THEN 0 ELSE LineCount(Head(ps)) + TotalLines(Tail(ps))

WellFormedLineInput(ps) == \A k \in 1..Len(ps) : WellFormedLineFile(ps[k])

\* What one file of the list contributes: its records up to its first fatal
\* error, and that error ("line": a line that is not JSON, "doc": a document
\* that is not JSON, "io": a file that cannot be read) or "none".
RefFile(path) ==
    LET f == FileAt(path)
        s == PathStr(path)
        c == f.content IN
    IF ~f.utf8 THEN [recs |-> <<>>, err |-> "none"]
    ELSE IF EndsWith(s, SufTgz)
    THEN IF c.fmt /= "tar" THEN [recs |-> <<>>, err |-> "io"]
         ELSE LET r == RefTar(c.entries) IN
              [recs |-> r.recs, err |-> IF r.ok THEN "none" ELSE "line"]
    ELSE IF EndsWith(s, SufJsonGz)
    THEN IF c.fmt /= "text" THEN [recs |-> <<>>, err |-> "io"]
         ELSE LET d == ParseJson(c.data) IN
              IF ~d.ok THEN [recs |-> <<>>, err |-> "doc"]
              ELSE [recs |-> IF ValueGet(d.v, KeyItems).t = "arr"
                             THEN ValueGet(d.v, KeyItems).a ELSE <<>>,
                    err |-> "none"]
    ELSE IF EndsWith(s, SufJsonlGz)
    THEN IF c.fmt /= "text" THEN [recs |-> <<>>, err |-> "io"]
         ELSE LET r == RefParseLines(SplitLines(c.data)) IN
              [recs |-> r.recs, err |-> IF r.ok THEN "none" ELSE "line"]
    ELSE [recs |-> <<>>, err |-> "none"]

\* What a list of files contributes, in list order, up to its first fatal error.
RECURSIVE RefList(_)
RefList(ps) ==
    IF ps = <<>> THEN [recs |-> <<>>, err |-> "none"]
    ELSE LET r == RefFile(Head(ps)) IN
         IF r.err /= "none" THEN r
         ELSE LET rest == RefList(Tail(ps)) IN
              [recs |-> r.recs \o rest.recs, err |-> rest.err]

\* What the files before the producer's current one contribute.
SentBefore(p) == RefList(SubSeq(paths[p], 1, prod[p].i - 1)).recs

\* What the tar file the producer is in has contributed at the producer's
\* position: the .jsonl entries before the current entry and, inside an entry,
\* its lines before the current line.
TarSoFar(p) ==
    LET st == prod[p]
        entries == CurFile(p).content.entries IN
    RefTar(SubSeq(entries, 1, st.e - 1)).recs
    \o (IF st.pc = "entry"
        THEN RefParseLines(SubSeq(SplitLines(entries[st.e].data), 1, st.l - 1)).recs
        ELSE <<>>)

\* A .json.gz file whose document is JSON but has no top-level "items" array.
NoItemsArrayDoc(path) ==
    LET f == FileAt(path) IN
    /\ f.utf8
    /\ EndsWith(PathStr(path), SufJsonGz)
    /\ f.content.fmt = "text"
    /\ LET d == ParseJson(f.content.data) IN
       /\ d.ok
       /\ \/ d.v.t /= "obj"
          \/ \A k \in 1..Len(d.v.o) :
                d.v.o[k][1] = KeyItems => d.v.o[k][2].t /= "arr"

\* Reading the output file back through the line-JSON decoder: the records it
\* sends, and whether it reaches the end of the file without an error (a
\* gzip stream that was never finished ends in an error).
Reingest(f) ==
    IF ~f.closed THEN [ok |-> FALSE, recs |-> <<>>]
    ELSE LET r == RefParseLines(SplitLines(f.data)) IN
         [ok |-> r.ok, recs |-> r.recs]

\* ----------------------------------------------------------------- claims

\* C1 as claimed: in every reachable state and for each pipeline, the records
\* the consumer has received followed by the records buffered in the channel
\* are the records the producer has sent, and once the drain loop has ended
\* normally the received records are all the records sent.
C1_NoLossInEveryState ==
    \A p \in Pipelines :
        /\ recv[p] \o chan[p] = sent[p]
        /\ LoopEndedNormally(p) => recv[p] = sent[p]

\* C1 amended: received followed by buffered equals sent in every state in
\* which the consumer's receiver has not been dropped by a writer I/O error;
\* in every state the received records are a prefix of the sent ones; and
\* once the drain loop has ended normally the received records are all the
\* records sent.
C1_NoLossWhileReceiverLives ==
    \A p \in Pipelines :
        /\ rx[p] = "alive" => recv[p] \o chan[p] = sent[p]
        /\ IsPrefix(recv[p], sent[p])
        /\ LoopEndedNormally(p) => recv[p] = sent[p]

\* A pipeline in mid-run: records received and records waiting in the channel.
C1_Witness ==
    \E p \in Pipelines :
        rx[p] = "alive" /\ Len(recv[p]) >= 2 /\ Len(chan[p]) >= 2 /\ TxAlive(p)

\* C2: when every scanned file is a well-formed line-delimited file (.jsonl.gz
\* files and the .jsonl entries of .tgz files) and they hold N lines in
\* total, the counting consumer prints exactly N, and whatever the input it
\* prints its count only in a state where the channel is closed (the sender
\* dropped) and empty.
C2_CountIsLineCount ==
    [][stdout' /= stdout /\ pcMain = "cdrain" =>
          /\ chan["count"] = <<>>
          /\ ~TxAlive("count")
          /\ WellFormedLineInput(paths["count"]) =>
                PrintedCounts' = {TotalLines(paths["count"])}]_vars

\* The count printed for well-formed line-delimited input of five lines or more.
C2_Witness ==
    /\ WellFormedLineInput(paths["count"])
    /\ \E n \in PrintedCounts : n >= 5 /\ n = TotalLines(paths["count"])

\* The state a full channel leaves the producer in: a parsed line in hand and
\* no step to take.
ProducerBlocked(p) ==
    /\ rx[p] = "alive"
    /\ Len(chan[p]) = Cap
    /\ prod[p].pc = "jsonl"
    /\ prod[p].l <= Len(SplitLines(CurFile(p).content.data))
    /\ ~ENABLED Producer(p)

\* C3: the channel never holds more than 10 records; a send is accepted only
\* when fewer than 10 are buffered (a send on a full channel waits for the
\* consumer); and while the channel is empty and the sender lives the
\* consumer in its loop takes no step.
C3_ChannelBounded ==
    /\ [](\A p \in Pipelines :
            /\ Len(chan[p]) <= Cap
            /\ Draining(p) /\ chan[p] = <<>> /\ TxAlive(p) => ~ENABLED Main)
    /\ [][\A p \in Pipelines : sent'[p] /= sent[p] => Len(chan[p]) < Cap]_vars

\* The channel full and the producer waiting with its next record.
C3_Witness == ProducerBlocked("count")

\* C4 as claimed, its safety part: the drain loop is left only in a state
\* where the producer's sender is gone and the channel is empty.
C4_LoopLeftOnlyWhenClosed ==
    \A p \in Pipelines : LoopOver(p) => ~TxAlive(p) /\ chan[p] = <<>>

\* C4 amended: under fair scheduling of the two threads the consumer's drain
\* loop is eventually left, either because the iterator ended or, in the
\* writer, because an I/O error returned out of it; when it ends because the
\* iterator ended, the producer's sender is gone and the channel is empty; and
\* while the process runs some thread can always take a step.
C4_DrainTerminates ==
    /\ [](\A p \in Pipelines : LoopEndedNormally(p) => ~TxAlive(p) /\ chan[p] = <<>>)
    /\ \A p \in Pipelines : Draining(p) ~> LoopOver(p)
    /\ [](exitCode = NoExit => ENABLED Next)

\* The writer's loop ended by channel closure after at least two records.
C4_Witness ==
    /\ pcMain = "wjoin"
    /\ LoopEndedNormally("write")
    /\ Len(recv["write"]) >= 2

\* C5 as claimed: when the first fatal error of the file list is a line that
\* is not JSON, the producer sends nothing but the records before that line
\* and, once it has met the line, it has sent all of them and the consumer has
\* received them all when its loop is left.
C5_SentBeforeErrorAllProcessed ==
    \A p \in Pipelines :
        LET ref == RefList(paths[p]) IN
        ref.err = "line" =>
            /\ IsPrefix(sent[p], ref.recs)
            /\ prod[p].err = "parse" =>
                  /\ sent[p] = ref.recs
                  /\ LoopOver(p) => recv[p] = sent[p]

\* C5 amended: as claimed, the consumer having received every record sent
\* before the malformed line when its loop ends by channel closure, that is,
\* unless the writer returned an I/O error first.
C5_SentBeforeErrorProcessedUnlessAborted ==
    \A p \in Pipelines :
        LET ref == RefList(paths[p]) IN
        ref.err = "line" =>
            /\ IsPrefix(sent[p], ref.recs)
            /\ prod[p].err = "parse" =>
                  /\ sent[p] = ref.recs
                  /\ LoopEndedNormally(p) => recv[p] = sent[p]

\* The producer stopped at a malformed line with files left in the list, and
\* the consumer ended its loop with the records sent before it.
C5_Witness ==
    \E p \in Pipelines :
        /\ prod[p].err = "parse"
        /\ prod[p].i < Len(paths[p])
        /\ LoopEndedNormally(p)
        /\ Len(recv[p]) >= 1

\* C6: the step of the producer on a .json.gz file whose document has no
\* top-level "items" array sends nothing, prints the diagnostic and leaves the
\* producer, without an error, at the next file of the list; and a producer
\* that returns without an error has gone through every file of the list.
C6_ShapeErrorNotFatal ==
    /\ [][\A p \in Pipelines :
            (/\ prod[p].pc = "loop"
             /\ prod[p].i <= Len(paths[p])
             /\ prod'[p] /= prod[p]
             /\ NoItemsArrayDoc(CurPath(p)))
            => /\ prod'[p] = [pc |-> "loop", i |-> prod[p].i + 1, e |-> 0, l |-> 0,
                              err |-> "none"]
               /\ sent'[p] = sent[p]
               /\ chan'[p] = chan[p]
               /\ stderr' = Append(stderr, ShapeDiagnostic)]_vars
    /\ [](\A p \in Pipelines :
            prod[p].pc \in {"returned", "exited"} /\ prod[p].err = "none"
            => prod[p].i = Len(paths[p]) + 1)

\* A producer that met a document without items as its first file and has
\* sent a record of a later file.
C6_Witness ==
    \E p \in Pipelines :
        /\ Len(paths[p]) >= 2
        /\ NoItemsArrayDoc(paths[p][1])
        /\ prod[p].i = 2
        /\ sent[p] /= <<>>
        /\ stderr /= <<>> /\ stderr[1] = ShapeDiagnostic

\* C7 as claimed: when the process has exited after one of the fatal
\* conditions (an error returned by main_r: scan error or writer I/O error; a
\* parse error or a send error that stopped a producer; the output-path
\* conflict), its status is not 0.
C7_FatalExitsNonZero ==
    exitCode = 0 =>
        /\ result = "ok"
        /\ \A p \in Pipelines : prod[p].err \notin {"parse", "send"}

\* C8 as claimed: a run whose output path is the input directory or under it
\* ends with a non-zero status, the output file never created and no input
\* file opened by a decoder.
C8_ConflictStopsBeforeAnyIo ==
    (/\ opts.input_dir /= NoPath
     /\ opts.output_file /= NoPath
     /\ IsPrefix(opts.input_dir, opts.output_file)
     /\ exitCode /= NoExit)
    => /\ exitCode = 1
       /\ ~outFile.exists
       /\ ~ingested

\* C9 as claimed (for a run that delivered records to the writer): when the
\* run has completed, reading the output file back through the line-JSON
\* decoder yields, without an error, the records the writer was given, in
\* order.
C9_RoundTrip ==
    (exitCode = 0 /\ outFile.exists /\ Len(recv["write"]) >= 2)
    => Reingest(outFile) = [ok |-> TRUE, recs |-> recv["write"]]

\* The round trip of C9 when the last write of the dropped writer succeeds.
C9_RoundTripWhenFinished ==
    (outFile.exists /\ outFile.closed)
    => Reingest(outFile) = [ok |-> TRUE, recs |-> recv["write"]]

\* C10: inside a tar file the producer has sent, after the records of the
\* files before it, exactly the lines of the entries whose file name ends
\* with ".jsonl", in entry order then line order; when it leaves the tar file
\* it has sent all of them; and it returns a parse error inside a tar file only
\* when one of those entries holds a line that is not JSON.
C10_TarEntriesInOrder ==
    \A p \in Pipelines :
        /\ prod[p].pc \in {"tgz", "entry"} =>
              /\ sent[p] = SentBefore(p) \o TarSoFar(p)
              /\ prod[p].err = "none"
        /\ (/\ prod[p].pc = "loop"
            /\ prod[p].i > 1
            /\ EndsWith(PathStr(paths[p][prod[p].i - 1]), SufTgz))
           => sent[p] = SentBefore(p)
        /\ (/\ prod[p].pc \in {"returned", "exited"}
            /\ prod[p].err = "parse"
            /\ EndsWith(PathStr(CurPath(p)), SufTgz))
           => ~RefTar(CurFile(p).content.entries).ok

\* The producer past a tar file with a non-matching entry, its three lines sent.
C10_Witness ==
    \E p \in Pipelines :
        /\ prod[p].pc = "loop"
        /\ prod[p].i = 2
        /\ FileAt(paths[p][1]) = FTar
        /\ Len(sent[p]) = 3

\* C11: for every path string of the bounded set, read_paths_to_channel hands
\* a path ending in ".jsonl.gz" to the line-JSON decoder, a path ending in
\* ".json.gz" to the single-document decoder and a path ending in ".tgz" to
\* the tar decoder (a file holding the line 1 is entered line by line by the
\* first, draws the diagnostic of a document without items from the second
\* and is refused by the third), and for any other path it opens nothing,
\* prints nothing and goes on to the next path without an error.
C11_DispatchBySuffix ==
    (call.fn = "read_paths" /\ ret /= NoCall) =>
        LET n == call.path_str
            Ends(suf) ==
                /\ Len(n) >= Len(suf)
                /\ \A k \in 1..Len(suf) : n[Len(n) - Len(suf) + k] = suf[k]
            jsonl == Ends(<<".", "j", "s", "o", "n", "l", ".", "g", "z">>)
            json == Ends(<<".", "j", "s", "o", "n", ".", "g", "z">>)
            tgz == Ends(<<".", "t", "g", "z">>)
            text == call.content.fmt = "text"
            next == [pc |-> "loop", i |-> 2, e |-> 0, l |-> 0, err |-> "none"] IN
        /\ jsonl => /\ ret.decoder = "jsonl"
                    /\ text => ret.step.prod.pc = "jsonl" /\ ret.step.log = <<>>
        /\ json => /\ ret.decoder = "json"
                   /\ text => ret.step.prod = next /\ ret.step.log = <<ShapeDiagnostic>>
        /\ tgz => /\ ret.decoder = "tgz"
                  /\ text => ret.step.prod.pc = "returned" /\ ret.step.prod.err = "io"
        /\ ~(jsonl \/ json \/ tgz)
           => /\ ret.decoder = "none"
              /\ ret.step = [prod |-> next, log |-> <<>>, opened |-> FALSE]

\* The dispatcher has routed a.json.gz.jsonl.gz to the line-JSON decoder.
C11_Witness ==
    /\ call.fn = "read_paths"
    /\ call.path_str = <<"a">> \o SufJsonGz \o SufJsonlGz
    /\ call.content.fmt = "text"
    /\ ret /= NoCall
    /\ ret.decoder = "jsonl"

\* C15: for every JSON value of the bounded set, get_doi_from_record returns
\* the string under "DOI" when the value is an object with a string under
\* that key, otherwise the string under "doi" when it is an object with a
\* string under that key, otherwise None; it returns one of these for every
\* value, an object or not.
C15_DoiLookupOrdered ==
    (call.fn = "get_doi" /\ ret /= NoCall) =>
        LET r == call.record
            StrsAt(key) ==
                IF r.t /= "obj" THEN {}
                ELSE {r.o[i][2].s : i \in {j \in 1..Len(r.o) :
                                              r.o[j][1] = key /\ r.o[j][2].t = "str"}} IN
        /\ StrsAt(KeyDOI) /= {} => ret.doi.some /\ ret.doi.v \in StrsAt(KeyDOI)
        /\ StrsAt(KeyDOI) = {} /\ StrsAt(KeyDoi) /= {}
           => ret.doi.some /\ ret.doi.v \in StrsAt(KeyDoi)
        /\ StrsAt(KeyDOI) = {} /\ StrsAt(KeyDoi) = {} => ret.doi = None

\* The lookup has passed over a "DOI" that is not a string and returned "doi",
\* and has preferred "DOI" on a record with two strings.
C15_Witness ==
    /\ call.fn = "get_doi"
    /\ ret /= NoCall
    /\ \/ /\ call.record = DoiRecord(Num(1), Str(<<"a">>))
          /\ ret.doi = Some(<<"a">>)
       \/ /\ call.record = DoiRecord(Str(<<"b", "/", "c">>), Str(<<"a">>))
          /\ ret.doi = Some(<<"b", "/", "c">>)

\* The tree under dir holds a directory that cannot be read.
RECURSIVE HasUnreadable(_)
HasUnreadable(dir) ==
    \/ ~dir.readable
    \/ \E k \in 1..Len(dir.entries) :
          dir.entries[k].kind = "dir" /\ HasUnreadable(dir.entries[k])

\* A mode that scans the input directory was asked for.
ScanAsked == opts.list_files \/ opts.count_records \/ opts.output_file /= NoPath

\* C12: when a directory of the tree under the input directory cannot be
\* read, no list of paths is ever used (none is printed, none is given to a
\* producer), no channel is created, no producer thread is spawned, no record
\* is consumed, no input file is opened and the output file is not created;
\* and a run that asked for a scan returns the scan error and exits with
\* status 1.
C12_ScanErrorAbortsBeforePipeline ==
    (opts.input_dir /= NoPath /\ HasUnreadable(root)) =>
        /\ \A p \in Pipelines :
              /\ rx[p] = "none"
              /\ prod[p] = Idle
              /\ paths[p] = <<>>
              /\ recv[p] = <<>>
              /\ count[p] = 0
        /\ \A k \in 1..Len(stdout) : stdout[k].k = "version"
        /\ ~outFile.exists
        /\ ~ingested
        /\ pcMain \notin {"cdrain", "cjoin", "create", "wdrain", "wjoin"}
        /\ (ScanAsked /\ pcMain \in {"returned", "exit"}) => result = "scan"
        /\ (ScanAsked /\ exitCode /= NoExit) => exitCode = 1

\* A run asked to count and to write, over a directory whose listing holds a
\* file and then a subdirectory that cannot be read, has exited.
C12_Witness ==
    /\ opts.count_records
    /\ opts.output_file = OutOutside
    /\ root.readable
    /\ Len(root.entries) = 2
    /\ root.entries[1] = FLines
    /\ root.entries[2] = DUnreadable
    /\ exitCode = 1
    /\ result = "scan"

\* C13: a send fails only when the receiver has been dropped, and then the
\* error returns out of read_paths_to_channel; once the receiver is dropped
\* the producer sends nothing more; a producer whose receiver is dropped can
\* always take a step while the process runs (it is not blocked on the
\* channel), and under fair scheduling its thread ends, by returning or with
\* the process.
C13_SendErrorEndsProducer ==
    /\ [][\A p \in Pipelines :
            /\ rx[p] = "dropped" => sent'[p] = sent[p]
            /\ (prod'[p].err = "send" /\ prod[p].err /= "send")
               => rx[p] = "dropped" /\ TxAlive(p) /\ prod'[p].pc = "returned"]_vars
    /\ [](\A p \in Pipelines :
            (rx[p] = "dropped" /\ ThreadLive(p) /\ exitCode = NoExit)
            => ENABLED Producer(p))
    /\ \A p \in Pipelines :
          (rx[p] = "dropped" /\ ThreadLive(p))
          ~> (~ThreadLive(p) \/ exitCode /= NoExit)

\* The producer had filled the channel when File::create failed; its next
\* send returned the error and its thread ended before the process exited.
C13_Witness ==
    /\ prod["write"].err = "send"
    /\ prod["write"].pc = "exited"
    /\ Len(sent["write"]) = Cap
    /\ recv["write"] = <<>>
    /\ exitCode = NoExit

\* The messages "Failed read archives" on the error stream.
FailedReads == {k \in 1..Len(stderr) : stderr[k].msg = "failed_read"}

\* C14 as claimed: a producer's failure is on the error stream only as a
\* message of the invoking thread, printed when the consumer's loop is over;
\* and a run that spawned a producer thread has joined it when it exits.
C14_LoggedByConsumerAfterJoin ==
    /\ \A k \in FailedReads : stderr[k].th = "main"
    /\ FailedReads /= {} => \E p \in Pipelines : LoopOver(p)
    /\ \A p \in Pipelines :
          (exitCode /= NoExit /\ rx[p] /= "none") => prod[p].pc = "exited"

\* C14 amended: a producer's failure is printed by the producer thread
\* itself, in the step in which its closure ends after read_paths_to_channel
\* returned the error (the consumer may still be draining); the invoking
\* thread leaves a join only when the producer thread has ended, and it
\* reaches the join after its loop ended by channel closure; a run that
\* spawned a producer has joined it when it exits, unless the writer returned
\* an I/O error.
C14_LoggedByProducerJoinAfterDrain ==
    /\ [](\A k \in FailedReads : stderr[k].th = "producer")
    /\ [][Len(stderr') > Len(stderr) /\ stderr'[Len(stderr')].msg = "failed_read"
          => \E p \in Pipelines :
                /\ prod[p].pc = "returned" /\ prod[p].err /= "none"
                /\ prod'[p].pc = "exited"]_vars
    /\ [][(pcMain \in {"cjoin", "wjoin"} /\ pcMain' /= pcMain)
          => LET p == IF pcMain = "cjoin" THEN "count" ELSE "write" IN
             prod[p].pc = "exited" /\ LoopEndedNormally(p)]_vars
    /\ [](\A p \in Pipelines :
            (exitCode /= NoExit /\ rx[p] /= "none" /\ result /= "io")
            => prod[p].pc = "exited")

\* The producer thread has printed its failure and ended while the consumer
\* is in its loop with records still buffered.
C14_Witness ==
    \E p \in Pipelines :
        /\ Draining(p)
        /\ chan[p] /= <<>>
        /\ prod[p].pc = "exited"
        /\ prod[p].err = "parse"
        /\ FailedReads /= {}

\* C16: the records the producer has sent are, at every moment, the decode
\* sequences of the files before its current one, in list order, followed by
\* a prefix of the decode sequence of the current file; between two files
\* they are exactly the sequences of the files done; and a producer that has
\* returned has sent every record of every file up to the first fatal error
\* of the list, of the whole list when it returned without an error.
C16_FilesInListOrder ==
    \A p \in Pipelines :
        LET st == prod[p]
            all == RefList(paths[p]) IN
        /\ IsPrefix(sent[p], all.recs)
        /\ st.pc = "loop" => sent[p] = SentBefore(p)
        /\ st.pc \in {"jsonl", "json", "tgz", "entry"}
           => /\ IsPrefix(SentBefore(p), sent[p])
              /\ IsPrefix(sent[p], SentBefore(p) \o RefFile(CurPath(p)).recs)
        /\ (st.pc \in {"returned", "exited"} /\ st.err = "none")
           => all.err = "none" /\ sent[p] = all.recs
        /\ (st.pc \in {"returned", "exited"} /\ st.err \in {"parse", "io"})
           => all.err /= "none" /\ sent[p] = all.recs

\* A producer has returned without an error from a list of two files, a tar
\* file and then a document, having sent the records of both.
C16_Witness ==
    \E p \in Pipelines :
        /\ Len(paths[p]) = 2
        /\ FileAt(paths[p][1]) = FTar
        /\ FileAt(paths[p][2]) = FItems
        /\ prod[p].pc = "returned"
        /\ prod[p].err = "none"
        /\ Len(sent[p]) = 5

\* C17: at most one producer thread is live at any moment (with the invoking
\* thread, two threads of control); once the writing pipeline's channel
\* exists, a counting pipeline that was started has had its producer thread
\* ended and joined and its receiver dropped; and a channel takes records
\* only in steps of its own pipeline's producer and gives them only to the
\* invoking thread in that pipeline's loop.
C17_OneProducerAtATime ==
    /\ [](~(ThreadLive("count") /\ ThreadLive("write")))
    /\ []((rx["write"] /= "none" /\ rx["count"] /= "none")
          => /\ prod["count"].pc = "exited"
             /\ rx["count"] = "dropped"
             /\ pcMain \notin {"cdrain", "cjoin"})
    /\ [][\A p \in Pipelines :
            /\ sent'[p] /= sent[p]
               => /\ TxAlive(p) /\ prod'[p] /= prod[p]
                  /\ \A q \in Pipelines \ {p} : prod'[q] = prod[q]
                  /\ pcMain' = pcMain /\ recv' = recv
            /\ recv'[p] /= recv[p] => Draining(p) /\ rx[p] = "alive" /\ prod' = prod]_vars

\* A run asked to count and to write is writing, its second producer live,
\* after a counting pipeline that delivered records.
C17_Witness ==
    /\ opts.count_records
    /\ pcMain = "wdrain"
    /\ ThreadLive("write")
    /\ recv["write"] /= <<>>
    /\ recv["count"] /= <<>>
    /\ prod["count"].pc = "exited"

\* The regular files of the tree under dir, found at path at: the path of
\* each and whether the path converts with Path::to_str.
RECURSIVE FilesUnder(_, _)
FilesUnder(dir, at) ==
    UNION {LET e == dir.entries[k]
               path == Append(at, e.name) IN
           IF e.kind = "file" THEN {[path |-> path, utf8 |-> e.utf8]}
           ELSE IF e.kind = "dir" THEN FilesUnder(e, path)
           ELSE {} : k \in 1..Len(dir.entries)}

\* A path string ends with ".json.gz", ".tgz" or ".jsonl.gz".
HasSnapshotSuffix(s) ==
    \E suf \in {<<".", "j", "s", "o", "n", ".", "g", "z">>, <<".", "t", "g", "z">>,
                <<".", "j", "s", "o", "n", "l", ".", "g", "z">>} :
        /\ Len(s) >= Len(suf)
        /\ SubSeq(s, Len(s) - Len(suf) + 1, Len(s)) = suf

\* The paths of a list, as a set.
PathSet(ps) == {ps[k] : k \in 1..Len(ps)}

\* Every path of the list is routed to a decoder, which opens the file.
AllRouted(ps) ==
    \A k \in 1..Len(ps) :
        /\ Dispatch(PathStr(ps[k])) \in {"tgz", "json", "jsonl"}
        /\ DispatchStep(AtFirstPath, FileAt(ps[k]), PathStr(ps[k])).opened

\* C18 as claimed: the list a scan gave to a producer holds only paths the
\* dispatcher routes to one of the three decoders, and it holds a regular
\* file of the tree if and only if the file's path ends with ".json.gz",
\* ".tgz" or ".jsonl.gz".
C18_ScannedIffSuffix ==
    \A p \in Pipelines :
        rx[p] /= "none" =>
            /\ AllRouted(paths[p])
            /\ PathSet(paths[p]) =
                 {f.path : f \in {g \in FilesUnder(root, opts.input_dir) :
                                     HasSnapshotSuffix(PathStr(g.path))}}

\* C18 amended: the list a scan gave to a producer holds, each once, exactly
\* the regular files of the tree whose path converts with Path::to_str and
\* ends with ".json.gz", ".tgz" or ".jsonl.gz", and the dispatcher routes
\* every path of the list to one of the three decoders.
C18_ScannedIffUtf8AndSuffix ==
    \A p \in Pipelines :
        rx[p] /= "none" =>
            /\ AllRouted(paths[p])
            /\ Cardinality(PathSet(paths[p])) = Len(paths[p])
            /\ PathSet(paths[p]) =
                 {f.path : f \in {g \in FilesUnder(root, opts.input_dir) :
                                     g.utf8 /\ HasSnapshotSuffix(PathStr(g.path))}}

\* A scan of a directory holding a file and a subdirectory has given a
\* producer the file and the one file of the subdirectory it takes.
C18_Witness ==
    \E p \in Pipelines :
        /\ rx[p] /= "none"
        /\ Len(root.entries) = 2
        /\ root.entries[1] = FLines
        /\ root.entries[2] = DSub
        /\ Len(paths[p]) = 2
        /\ FileAt(paths[p][2]) = FItemsNum
====
